---- MODULE Spec2Model ----
(***************************************************************************)
(* MarketSnapshot.py: the performance calculators, the per-section table   *)
(* builder of generate_morning_report, the top/bottom ranker, the heatmap  *)
(* classes of get_heatmap_class and the ranges of create_html_table.       *)
(*                                                                         *)
(* Dates are day numbers (pandas Timestamps after .normalize()).  Values   *)
(* are integers.  A change is an exact rational [num, den] in lowest terms *)
(* with den > 0: on the bounded domains used here the IEEE double the      *)
(* program computes is a strictly monotone, injective image of that        *)
(* rational, so equality and order of changes are the program's.           *)
(* The marker "N/A" is the cell NA.                                        *)
(***************************************************************************)
EXTENDS Integers, Sequences, FiniteSets, TLC

VARIABLES
    today,      \* TODAY normalized: the as-of day
    pc,         \* position of the modelled call or loop
    variant,    \* which calculator is applied to frame
    frame,      \* current_price_df / series_data handed to the calculator
    sorted,     \* the frame after .sort_index() inside the calculator
    perf,       \* the performance dict the calculator returns
    current,    \* current_rate returned by get_currency_performance
    apiKey,     \* FRED_API_KEY is set
    section,    \* the section of generate_morning_report being built
    order,      \* the section's full_..._order list
    responses,  \* what the provider answered (or would answer) per asset so far
    rows,       \* the section's ..._data_list
    table,      \* df handed to get_top_bottom_performers: rows [Name, val],
                \* val the cell of column_name
    num_performers,   \* num_performers of the call
    top,        \* first frame get_top_bottom_performers returns
    bottom,     \* second frame get_top_bottom_performers returns
    value,          \* value handed to get_heatmap_class
    min_col_val,    \* min_col_val handed to get_heatmap_class
    max_col_val,    \* max_col_val handed to get_heatmap_class
    heatmap_class,  \* what get_heatmap_class returns
    html_df,        \* df handed to create_html_table: rows, one cell per column
    apply_heatmap,  \* apply_heatmap of the call
    column_heatmap_ranges,  \* column_heatmap_ranges of create_html_table
    html_content    \* the table rows rendered so far, one entry per cell

calcVars   == <<variant, frame, sorted, perf, current>>
reportVars == <<apiKey, section, order, responses, rows>>
rankVars   == <<table, num_performers, top, bottom>>
heatVars   == <<value, min_col_val, max_col_val, heatmap_class>>
htmlVars   == <<html_df, apply_heatmap, column_heatmap_ranges, html_content>>
vars == <<today, pc, calcVars, reportVars, rankVars, heatVars, htmlVars>>

-----------------------------------------------------------------------------
(* Bounds *)

MaxLen == 3         \* longest frame handed to a calculator
MaxAssets == 5      \* entries of a ticker dictionary / order list that are modelled
MaxRows == 4        \* rows of a table handed to the ranker
MaxK == 3           \* largest num_performers
MaxAbs == 16        \* largest |value|, |min_col_val|, |max_col_val| of a heatmap call
MaxDfRows == 3      \* rows of a table handed to create_html_table

Values == {0, 99, 102}      \* observation values
Offsets == {0, 6, 7, 30}     \* ages of observations on the first as-of day, in days

-----------------------------------------------------------------------------
(* Program constants *)

FetchDays == 95     \* THREE_MONTHS_AGO_FOR_FETCH = TODAY_DT - 95 days
WeekDays  == 7      \* pd.Timedelta(days=7)
MonthDays == 30     \* pd.Timedelta(days=30)

-----------------------------------------------------------------------------
(* Cells: a float or the string "N/A" *)

NA == [ok |-> FALSE, num |-> 0, den |-> 1]

Abs(x) == IF x < 0 THEN -x ELSE x

RECURSIVE Gcd(_, _)
Gcd(a, b) == IF b = 0 THEN a ELSE Gcd(b, a % b)

\* the float n / d, d # 0
Ratio(n, d) ==
    LET g == Gcd(Abs(n), Abs(d))
        s == IF d < 0 THEN -1 ELSE 1
    IN  [ok |-> TRUE, num |-> (s * n) \div g, den |-> Abs(d) \div g]

Num(n) == Ratio(n, 1)

IsNumeric(c) == c.ok

\* None, where a float is expected
None == [ok |-> FALSE, num |-> 0, den |-> 0]

\* f"{selected_class} {text_class}", in its two parts
Class(selected_class, text_class) ==
    [selected_class |-> selected_class, text_class |-> text_class]

\* no class: the cell is rendered plain, or nothing is returned yet
NoClass == Class("", "")

\* column_heatmap_ranges = {}
NoRanges == <<>>

\* a < b on numeric cells
Less(a, b) == a.num * b.den < b.num * a.den

-----------------------------------------------------------------------------
(* Frames: sequences of observations [date, val] in row order *)

Obs(d, v) == [date |-> d, val |-> v]

Last(s) == s[Len(s)]

IsMonotonic(s) == \A i \in 1..(Len(s) - 1) : s[i].date <= s[i + 1].date

\* x put into r at place p
InsertAt(r, p, x) == SubSeq(r, 1, p - 1) \o <<x>> \o SubSeq(r, p, Len(r))

\* row a sorts strictly before row b: by index date, or by the column's
\* value ascending or descending
Before(by, a, b) ==
    CASE by = "index"      -> a.date < b.date
      [] by = "ascending"  -> Less(a.val, b.val)
      [] by = "descending" -> Less(b.val, a.val)

RECURSIVE Orderings(_, _)
\* the arrangements of the rows of s in which no row precedes a row that
\* sorts strictly before it: what a sort that is not stable can return
Orderings(s, by) ==
    IF Len(s) <= 1 THEN {s}
    ELSE LET x == s[Len(s)]
         IN  UNION {{InsertAt(r, p, x) :
                        p \in {q \in 1..(Len(r) + 1) :
                                  /\ \A i \in 1..(q - 1) : ~Before(by, x, r[i])
                                  /\ \A i \in q..Len(r) : ~Before(by, r[i], x)}} :
                    r \in Orderings(SubSeq(s, 1, Len(s) - 1), by)}

\* DataFrame.sort_index() / Series.sort_index(), default kind="quicksort":
\* a frame whose index is already monotonic increasing is returned as it is;
\* otherwise the rows are ordered by date and the order of rows with equal
\* dates is not determined (the sort is not stable).
SortIndex(s) ==
    IF IsMonotonic(s) THEN {s} ELSE Orderings(s, "index")

\* (mutation: the cutoff day itself is left out)
SliceBefore(df, cutoff) == SelectSeq(df, LAMBDA o : o.date < cutoff)

\* (mutation: the reference has to be a row before the latest one)
SliceOlder(df, cutoff) ==
    SelectSeq(SubSeq(df, 1, Len(df) - 1), LAMBDA o : o.date <= cutoff)

\* df[df.index <= cutoff]
SliceUpTo(df, cutoff) == SelectSeq(df, LAMBDA o : o.date <= cutoff)

AllNA == [Day |-> NA, Week |-> NA, Month |-> NA]

\* (mutation: no guard on the denominator)
PctChangeUnguarded(a, b) == [ok |-> TRUE, num |-> (a - b) * 100, den |-> b]

\* ((a - b) / b) * 100 guarded by b != 0
PctChange(a, b) == IF b # 0 THEN Ratio((a - b) * 100, b) ELSE NA

\* (a - b)
Diff(a, b) == Num(a - b)

-----------------------------------------------------------------------------
(* The calculators, from the sorted frame on (the frame is not empty) *)

\* (mutation: the week cutoff lies beyond the month cutoff)
OneWeekAgoBeyondMonth(t) == t - MonthDays - WeekDays

OneWeekAgo(t)  == t - WeekDays
OneMonthAgo(t) == t - MonthDays

\* (mutation: Week is computed only inside the Month branch)
YfinancePerformanceNested(df, t) ==
    LET current_price == Last(df).val
        week_slice    == SliceUpTo(df, OneWeekAgo(t))
        month_slice   == SliceUpTo(df, OneMonthAgo(t))
    IN  [Day   |-> IF Len(df) >= 2
                   THEN PctChange(current_price, df[Len(df) - 1].val) ELSE NA,
         Week  |-> IF month_slice # <<>> /\ week_slice # <<>>
                   THEN PctChange(current_price, Last(week_slice).val) ELSE NA,
         Month |-> IF month_slice # <<>>
                   THEN PctChange(current_price, Last(month_slice).val) ELSE NA]

\* calculate_yfinance_performance after current_price_df.sort_index()
YfinancePerformance(df, t) ==
    LET current_price == Last(df).val
        week_slice    == SliceUpTo(df, OneWeekAgo(t))
        month_slice   == SliceUpTo(df, OneMonthAgo(t))
    IN  [Day   |-> IF Len(df) >= 2
                   THEN PctChange(current_price, df[Len(df) - 1].val) ELSE NA,
         Week  |-> IF week_slice # <<>>
                   THEN PctChange(current_price, Last(week_slice).val) ELSE NA,
         Month |-> IF month_slice # <<>>
                   THEN PctChange(current_price, Last(month_slice).val) ELSE NA]

\* (mutation: the yield changes are reported as percentages)
FredPerformanceRelative(df, t) ==
    LET current_value == Last(df).val
        week_slice    == SliceUpTo(df, OneWeekAgo(t))
        month_slice   == SliceUpTo(df, OneMonthAgo(t))
    IN  [Day   |-> IF Len(df) >= 2
                   THEN PctChange(current_value, df[Len(df) - 1].val) ELSE NA,
         Week  |-> IF week_slice # <<>>
                   THEN PctChange(current_value, Last(week_slice).val) ELSE NA,
         Month |-> IF month_slice # <<>>
                   THEN PctChange(current_value, Last(month_slice).val) ELSE NA]

\* calculate_fred_performance after series_data.sort_index()
FredPerformance(df, t) ==
    LET current_value == Last(df).val
        week_slice    == SliceUpTo(df, OneWeekAgo(t))
        month_slice   == SliceUpTo(df, OneMonthAgo(t))
    IN  [Day   |-> IF Len(df) >= 2
                   THEN Diff(current_value, df[Len(df) - 1].val) ELSE NA,
         Week  |-> IF week_slice # <<>>
                   THEN Diff(current_value, Last(week_slice).val) ELSE NA,
         Month |-> IF month_slice # <<>>
                   THEN Diff(current_value, Last(month_slice).val) ELSE NA]

\* (mutation: Day compares with the observation of the previous calendar day)
CurrencyPerformanceCalendarDay(df, t) ==
    LET current_rate == Last(df).val
        day_slice    == SelectSeq(df, LAMBDA o : o.date = Last(df).date - 1)
        week_slice   == SliceUpTo(df, OneWeekAgo(t))
        month_slice  == SliceUpTo(df, OneMonthAgo(t))
    IN  [Day   |-> IF day_slice # <<>>
                   THEN PctChange(current_rate, Last(day_slice).val) ELSE NA,
         Week  |-> IF week_slice # <<>>
                   THEN PctChange(current_rate, Last(week_slice).val) ELSE NA,
         Month |-> IF month_slice # <<>>
                   THEN PctChange(current_rate, Last(month_slice).val) ELSE NA]

\* get_currency_performance after current_price_df.sort_index()
CurrencyPerformance(df, t) ==
    LET current_rate == Last(df).val
        week_slice   == SliceUpTo(df, OneWeekAgo(t))
        month_slice  == SliceUpTo(df, OneMonthAgo(t))
    IN  [Day   |-> IF Len(df) >= 2
                   THEN PctChange(current_rate, df[Len(df) - 1].val) ELSE NA,
         Week  |-> IF week_slice # <<>>
                   THEN PctChange(current_rate, Last(week_slice).val) ELSE NA,
         Month |-> IF month_slice # <<>>
                   THEN PctChange(current_rate, Last(month_slice).val) ELSE NA]

-----------------------------------------------------------------------------
(* Calls of the calculators on bounded inputs *)

\* the as-of days: the fetch window of the first one starts at day 0
Todays == {FetchDays, FetchDays + 1}

Dates == {FetchDays - o : o \in Offsets}

Observations == {Obs(d, v) : d \in Dates, v \in Values}

Frames == UNION {[1..n -> Observations] : n \in 0..MaxLen}

Variants == {"yfinance", "fred", "currency"}

InitPerf ==
    /\ today \in Todays
    /\ frame \in Frames
    /\ variant \in Variants
    /\ pc = "call"
    /\ sorted = <<>>
    /\ perf = AllNA
    /\ current = NA
    /\ apiKey = TRUE /\ section = "none" /\ order = <<>>
    /\ responses = <<>> /\ rows = <<>>
    /\ table = <<>> /\ num_performers = 0 /\ top = <<>> /\ bottom = <<>>
    /\ value = NA /\ min_col_val = None /\ max_col_val = None
    /\ heatmap_class = NoClass
    /\ html_df = <<>> /\ apply_heatmap = FALSE
    /\ column_heatmap_ranges = NoRanges /\ html_content = <<>>

\* calculate_yfinance_performance(ticker_symbol, current_price_df)
CalcYfinance ==
    /\ pc = "call" /\ variant = "yfinance"
    /\ IF frame = <<>>
       THEN sorted' = <<>> /\ perf' = AllNA
       ELSE \E df \in SortIndex(frame) :
                sorted' = df /\ perf' = YfinancePerformance(df, today)
    /\ pc' = "done"
    /\ UNCHANGED <<today, variant, frame, current, reportVars, rankVars, heatVars, htmlVars>>

\* calculate_fred_performance(series_data)
CalcFred ==
    /\ pc = "call" /\ variant = "fred"
    /\ IF frame = <<>>
       THEN sorted' = <<>> /\ perf' = AllNA
       ELSE \E df \in SortIndex(frame) :
                sorted' = df /\ perf' = FredPerformance(df, today)
    /\ pc' = "done"
    /\ UNCHANGED <<today, variant, frame, current, reportVars, rankVars, heatVars, htmlVars>>

\* get_currency_performance(ticker_symbol, current_price_df)
CalcCurrency ==
    /\ pc = "call" /\ variant = "currency"
    /\ IF frame = <<>>
       THEN sorted' = <<>> /\ perf' = AllNA /\ current' = NA
       ELSE \E df \in SortIndex(frame) :
                /\ sorted' = df
                /\ perf' = CurrencyPerformance(df, today)
                /\ current' = Num(Last(df).val)
    /\ pc' = "done"
    /\ UNCHANGED <<today, variant, frame, reportVars, rankVars, heatVars, htmlVars>>

NextPerf == CalcYfinance \/ CalcFred \/ CalcCurrency

SpecPerf == InitPerf /\ [][NextPerf]_vars

-----------------------------------------------------------------------------
(* The ticker dictionaries and order lists (keys in insertion order; of a  *)
(* dictionary the first MaxAssets keys are modelled)                       *)

Min(a, b) == IF a <= b THEN a ELSE b

Take(s, n) == SubSeq(s, 1, Min(n, Len(s)))

Range(s) == {s[i] : i \in DOMAIN s}

US_EQUITY_TICKERS ==
    Take(<<"S&P 500", "QQQ (Nasdaq 100)", "Russell 2000", "Real Estate (XLRE)",
           "Communication Services (XLC)", "Technology (XLK)",
           "Industrials (XLI)">>, MaxAssets)

CURRENCY_TICKERS ==
    Take(<<"DXY (US Dollar Index)", "Japanese Yen", "Euro", "British Pound",
           "Swiss Franc", "Australian Dollar", "Brazilian Real">>, MaxAssets)

FRED_FIXED_INCOME_SERIES ==
    {"3-Month T-Bill Yield", "2-Year T-Note Yield", "10-Year T-Bond Yield",
     "30-Year T-Bond Yield"}

YFINANCE_FIXED_INCOME_TICKERS ==
    {"MOVE Index", "High Grade Bonds", "High Yield Bonds"}

us_equity_order == <<"S&P 500", "QQQ (Nasdaq 100)", "Russell 2000">>

curr_order == <<"DXY (US Dollar Index)">>

full_fixed_income_order ==
    Take(<<"MOVE Index", "3-Month T-Bill Yield", "2-Year T-Note Yield",
           "10-Year T-Bond Yield", "30-Year T-Bond Yield", "High Grade Bonds",
           "High Yield Bonds">>, MaxAssets)

\* the code points of a name's first three characters (str comparison is by
\* code point; three characters tell the modelled names apart)
CodePoints ==
    [n \in {"S&P 500", "QQQ (Nasdaq 100)", "Russell 2000", "Real Estate (XLRE)",
            "Communication Services (XLC)", "Technology (XLK)",
            "Industrials (XLI)", "DXY (US Dollar Index)", "Japanese Yen",
            "Euro", "British Pound", "Swiss Franc", "Australian Dollar",
            "Brazilian Real"} |->
        CASE n = "S&P 500"                      -> <<83, 38, 80>>
          [] n = "QQQ (Nasdaq 100)"             -> <<81, 81, 81>>
          [] n = "Russell 2000"                 -> <<82, 117, 115>>
          [] n = "Real Estate (XLRE)"           -> <<82, 101, 97>>
          [] n = "Communication Services (XLC)" -> <<67, 111, 109>>
          [] n = "Technology (XLK)"             -> <<84, 101, 99>>
          [] n = "Industrials (XLI)"            -> <<73, 110, 100>>
          [] n = "DXY (US Dollar Index)"        -> <<68, 88, 89>>
          [] n = "Japanese Yen"                 -> <<74, 97, 112>>
          [] n = "Euro"                         -> <<69, 117, 114>>
          [] n = "British Pound"                -> <<66, 114, 105>>
          [] n = "Swiss Franc"                  -> <<83, 119, 105>>
          [] n = "Australian Dollar"            -> <<65, 117, 115>>
          [] n = "Brazilian Real"               -> <<66, 114, 97>>]

\* TICKERS[name]
TickerOf(n) ==
    CASE n = "S&P 500"                      -> "SPY"
      [] n = "QQQ (Nasdaq 100)"             -> "QQQ"
      [] n = "Russell 2000"                 -> "IWM"
      [] n = "Real Estate (XLRE)"           -> "XLRE"
      [] n = "Communication Services (XLC)" -> "XLC"
      [] n = "Technology (XLK)"             -> "XLK"
      [] n = "Industrials (XLI)"            -> "XLI"
      [] n = "DXY (US Dollar Index)"        -> "DX-Y.NYB"
      [] n = "Japanese Yen"                 -> "JPY=X"
      [] n = "Euro"                         -> "EURUSD=X"
      [] n = "British Pound"                -> "GBPUSD=X"
      [] n = "Swiss Franc"                  -> "CHF=X"
      [] n = "Australian Dollar"            -> "AUDUSD=X"
      [] n = "Brazilian Real"               -> "BRL=X"

\* a < b on str
StrLess(a, b) ==
    LET x == CodePoints[a]
        y == CodePoints[b]
    IN  \E i \in 1..Len(y) :
            /\ \A j \in 1..(i - 1) : j <= Len(x) /\ x[j] = y[j]
            /\ (i = Len(x) + 1 \/ (i <= Len(x) /\ x[i] < y[i]))

RECURSIVE SortedNames(_)
\* sorted(S) for a collection S of distinct names
SortedNames(S) ==
    IF S = {} THEN <<>>
    ELSE LET m == CHOOSE x \in S : \A y \in S \ {x} : StrLess(x, y)
         IN  <<m>> \o SortedNames(S \ {m})

\* order + sorted([name for name in TICKERS.keys() if name not in order])
FullOrder(first, tickers) ==
    first \o SortedNames({n \in Range(tickers) : n \notin Range(first)})

Sections == {"us_equity", "fixed_income", "currency"}

SectionOrder(sec) ==
    CASE sec = "us_equity"    -> FullOrder(us_equity_order, US_EQUITY_TICKERS)
      [] sec = "fixed_income" -> full_fixed_income_order
      [] sec = "currency"     -> FullOrder(curr_order, CURRENCY_TICKERS)

-----------------------------------------------------------------------------
(* The fetchers.  A provider response is an error, or a list of            *)
(* observations [stamp, val, num]: stamp a timestamp in hours, num whether *)
(* the value parses as a number.  A fetcher returns a frame, or raises.    *)

Stamp(day, hour) == day * 24 + hour

RawObs(day, hour, v) == [stamp |-> Stamp(day, hour), val |-> v, num |-> TRUE]

BadObs(day) == [stamp |-> Stamp(day, 0), val |-> 0, num |-> FALSE]

Failure == [kind |-> "error", data |-> <<>>]

Answer(d) == [kind |-> "ok", data |-> d]

Returns(f) == [raised |-> FALSE, data |-> f]

Raises == [raised |-> TRUE, data |-> <<>>]

\* pd.to_datetime(...).normalize() on each row
Normalized(d) == [i \in DOMAIN d |-> Obs(d[i].stamp \div 24, d[i].val)]

\* (mutation: the download error is not caught)
GetYfinanceDataUncaught(resp) ==
    IF resp.kind = "error" THEN Raises
    ELSE IF resp.data = <<>> THEN Returns(<<>>)
    ELSE Returns(Normalized(resp.data))

\* get_yfinance_data(ticker_symbol, start_date, end_date)
GetYfinanceData(resp) ==
    IF resp.kind = "error" THEN Returns(<<>>)
    ELSE IF resp.data = <<>> THEN Returns(<<>>)
    ELSE Returns(Normalized(resp.data))

\* get_fred_data(series_id, api_key, start_date, end_date)
GetFredData(resp, api_key) ==
    IF ~api_key THEN Returns(<<>>)
    ELSE IF resp.kind = "error" THEN Returns(<<>>)
    ELSE IF resp.data = <<>> THEN Returns(<<>>)
    ELSE Returns(Normalized(SelectSeq(resp.data, LAMBDA o : o.num)))

YfinanceResponses ==
    {Failure,
     Answer(<<>>),
     Answer(<<RawObs(FetchDays - 8, 0, 102), RawObs(FetchDays - 0, 0, 99)>>),
     Answer(<<RawObs(FetchDays - 0, 0, 99), RawObs(FetchDays - 7, 0, 0),
              RawObs(FetchDays - 31, 0, 102)>>),
     Answer(<<RawObs(FetchDays - 6, 0, 102), RawObs(FetchDays - 6, 16, 99)>>)}

FredResponses ==
    {Failure,
     Answer(<<>>),
     Answer(<<RawObs(FetchDays - 30, 0, 102), BadObs(FetchDays - 6),
              RawObs(FetchDays - 0, 0, 99)>>),
     Answer(<<BadObs(FetchDays - 7), BadObs(FetchDays - 0)>>)}

-----------------------------------------------------------------------------
(* The section loops of generate_morning_report *)

IsFred(name) == name \in FRED_FIXED_INCOME_SERIES

ResponsesFor(sec, name) ==
    IF sec = "fixed_income" /\ IsFred(name) THEN FredResponses
    ELSE YfinanceResponses

\* {"Asset" / "Currency": name, "Ticker": ticker, "Current Level" / "Current
\* Rate": cur, "Past Day / Week / Month Change (%)": perf}
TickerRow(name, cur, p) ==
    [Name |-> name, Ticker |-> TickerOf(name), Current |-> cur,
     Day |-> p.Day, Week |-> p.Week, Month |-> p.Month]

\* {"Asset": name, "Current Level": cur, "Past ... Change (bps/%)": perf}
FixedIncomeRow(name, cur, p) ==
    [Name |-> name, Current |-> cur,
     Day |-> p.Day, Week |-> p.Week, Month |-> p.Month]

\* the rows one iteration of the US equity loop may append for the frame
EquityRows(name, hist) ==
    IF hist = <<>> THEN {TickerRow(name, NA, AllNA)}
    ELSE {TickerRow(name, Num(Last(hist).val), YfinancePerformance(df, today)) :
              df \in SortIndex(hist)}

\* the rows one iteration of the fixed income loop may append for the frame
FixedIncomeRows(name, hist) ==
    IF hist = <<>> THEN {FixedIncomeRow(name, NA, AllNA)}
    ELSE IF IsFred(name)
    THEN {FixedIncomeRow(name, Num(Last(hist).val), FredPerformance(df, today)) :
              df \in SortIndex(hist)}
    ELSE {FixedIncomeRow(name, Num(Last(hist).val), YfinancePerformance(df, today)) :
              df \in SortIndex(hist)}

\* the rows one iteration of the currency loop may append for the frame
CurrencyRows(name, hist) ==
    IF hist = <<>> THEN {TickerRow(name, NA, AllNA)}
    ELSE {TickerRow(name, Num(Last(df).val), CurrencyPerformance(df, today)) :
              df \in SortIndex(hist)}

\* (mutation: an asset without data is left out of the list)
AppendedUnlessNA(list, row) == IF row.Current = NA THEN list ELSE Append(list, row)

\* ..._data_list.append({...})
Appended(list, row) == Append(list, row)

InitReport ==
    /\ today \in Todays
    /\ apiKey \in BOOLEAN
    /\ section \in Sections
    /\ order = SectionOrder(section)
    /\ responses = <<>>
    /\ rows = <<>>
    /\ pc = "loop"
    /\ variant = "none" /\ frame = <<>> /\ sorted = <<>>
    /\ perf = AllNA /\ current = NA
    /\ table = <<>> /\ num_performers = 0 /\ top = <<>> /\ bottom = <<>>
    /\ value = NA /\ min_col_val = None /\ max_col_val = None
    /\ heatmap_class = NoClass
    /\ html_df = <<>> /\ apply_heatmap = FALSE
    /\ column_heatmap_ranges = NoRanges /\ html_content = <<>>

\* the asset the loop is at: one iteration per provider response
AtAsset == pc = "loop" /\ Len(responses) < Len(order)

NextName == order[Len(responses) + 1]

\* one iteration of "for name in full_us_equity_order"
EquityStep ==
    /\ AtAsset /\ section = "us_equity"
    /\ \E resp \in ResponsesFor(section, NextName) :
        LET got == GetYfinanceData(resp)
        IN  /\ responses' = Append(responses, resp)
            /\ IF got.raised
               THEN pc' = "aborted" /\ rows' = rows
               ELSE /\ pc' = pc
                    /\ \E row \in EquityRows(NextName, got.data) :
                           rows' = Appended(rows, row)
    /\ UNCHANGED <<today, calcVars, apiKey, section, order, rankVars, heatVars, htmlVars>>

\* one iteration of "for name in full_fixed_income_order"
FixedIncomeStep ==
    /\ AtAsset /\ section = "fixed_income"
    /\ \E resp \in ResponsesFor(section, NextName) :
        LET got == IF IsFred(NextName) THEN GetFredData(resp, apiKey)
                   ELSE IF NextName \in YFINANCE_FIXED_INCOME_TICKERS
                        THEN GetYfinanceData(resp)
                        ELSE Returns(<<>>)
        IN  /\ responses' = Append(responses, resp)
            /\ IF got.raised
               THEN pc' = "aborted" /\ rows' = rows
               ELSE /\ pc' = pc
                    /\ \E row \in FixedIncomeRows(NextName, got.data) :
                           rows' = Appended(rows, row)
    /\ UNCHANGED <<today, calcVars, apiKey, section, order, rankVars, heatVars, htmlVars>>

\* one iteration of "for name in full_curr_order"
CurrencyStep ==
    /\ AtAsset /\ section = "currency"
    /\ \E resp \in ResponsesFor(section, NextName) :
        LET got == GetYfinanceData(resp)
        IN  /\ responses' = Append(responses, resp)
            /\ IF got.raised
               THEN pc' = "aborted" /\ rows' = rows
               ELSE /\ pc' = pc
                    /\ \E row \in CurrencyRows(NextName, got.data) :
                           rows' = Appended(rows, row)
    /\ UNCHANGED <<today, calcVars, apiKey, section, order, rankVars, heatVars, htmlVars>>

\* pd.DataFrame(..._data_list) after the loop
BuildTable ==
    /\ pc = "loop" /\ Len(responses) = Len(order)
    /\ pc' = "built"
    /\ UNCHANGED <<today, calcVars, reportVars, rankVars, heatVars, htmlVars>>

NextReport == EquityStep \/ FixedIncomeStep \/ CurrencyStep \/ BuildTable

SpecReport == InitReport /\ [][NextReport]_vars

-----------------------------------------------------------------------------
(* get_top_bottom_performers *)

\* (mutation: "N/A" counts as zero)
NumericRowsFillZero(t) ==
    [i \in DOMAIN t |-> IF t[i].val.ok THEN t[i] ELSE [t[i] EXCEPT !.val = Num(0)]]

\* pd.to_numeric(..., errors='coerce') and dropna(subset=[column_name])
NumericRows(t) == SelectSeq(t, LAMBDA r : IsNumeric(r.val))

\* sort_values(by=column_name, ascending=False), default kind="quicksort":
\* the order of rows with equal values is not determined
SortValuesDescending(t) == Orderings(t, "descending")

\* sort_values(by=column_name, ascending=True)
SortValuesAscending(t) == Orderings(t, "ascending")

\* df.head(n), n >= 0
HeadRows(t, n) == SubSeq(t, 1, Min(n, Len(t)))

\* df.tail(n), n >= 0
TailRows(t, n) == SubSeq(t, Len(t) - Min(n, Len(t)) + 1, Len(t))

\* (mutation: the tail is returned as it is, descending)
BottomsUnsorted(df_sorted, n) == {TailRows(df_sorted, n)}

\* df_sorted.tail(num_performers).sort_values(by=column_name, ascending=True)
Bottoms(df_sorted, n) == SortValuesAscending(TailRows(df_sorted, n))

RankCells == {NA, Num(-1), Num(0), Num(1), Ratio(1, 2)}

Tables ==
    UNION {{[i \in 1..n |-> [Name |-> i, val |-> c[i]]] : c \in [1..n -> RankCells]} :
               n \in 0..MaxRows}

InitRank ==
    /\ table \in Tables
    /\ num_performers \in 0..MaxK
    /\ top = <<>> /\ bottom = <<>>
    /\ pc = "call"
    /\ today = FetchDays
    /\ variant = "none" /\ frame = <<>> /\ sorted = <<>>
    /\ perf = AllNA /\ current = NA
    /\ apiKey = TRUE /\ section = "none" /\ order = <<>>
    /\ responses = <<>> /\ rows = <<>>
    /\ value = NA /\ min_col_val = None /\ max_col_val = None
    /\ heatmap_class = NoClass
    /\ html_df = <<>> /\ apply_heatmap = FALSE
    /\ column_heatmap_ranges = NoRanges /\ html_content = <<>>

\* get_top_bottom_performers(df, column_name, num_performers)
TopBottom ==
    /\ pc = "call" /\ section = "none" /\ variant = "none"
    /\ \E df_sorted \in SortValuesDescending(NumericRows(table)) :
        /\ top' = HeadRows(df_sorted, num_performers)
        /\ bottom' \in Bottoms(df_sorted, num_performers)
    /\ pc' = "done"
    /\ UNCHANGED <<today, calcVars, reportVars, table, num_performers,
                   heatVars, htmlVars>>

NextRank == TopBottom

SpecRank == InitRank /\ [][NextRank]_vars

-----------------------------------------------------------------------------
(* get_heatmap_class *)

green_classes ==
    <<"bg-green-100", "bg-green-200", "bg-green-300", "bg-green-400", "bg-green-500">>

red_classes ==
    <<"bg-red-100", "bg-red-200", "bg-red-300", "bg-red-400", "bg-red-500">>

Max(a, b) == IF a > b THEN a ELSE b

\* a / b on floats, b # 0
Quotient(a, b) == Ratio(a.num * b.den, a.den * b.num)

\* abs(a)
AbsCell(a) == [a EXCEPT !.num = Abs(a.num)]

\* min(a, b) of Python: a unless b < a
MinCell(a, b) == IF Less(b, a) THEN b ELSE a

RECURSIVE IntSqrtTimes(_, _, _)
\* int(x ** 0.5 * n) for a float x >= 0 and an integer n >= 0, counted up
\* from i: the greatest j with j * j <= n * n * x
IntSqrtTimes(x, n, i) ==
    IF (i + 1) * (i + 1) * x.den <= n * n * x.num
    THEN IntSqrtTimes(x, n, i + 1) ELSE i

\* int(x * n) for a float x >= 0
IntTimes(x, n) == (x.num * n) \div x.den

\* (mutation: the green scale is linear)
GreenIndexLinear(scale) ==
    Max(0, Min(IntTimes(scale, Len(green_classes) - 1), Len(green_classes) - 1))

\* max(0, min(int(scale ** 0.5 * (len(green_classes) - 1)), len(green_classes) - 1))
GreenIndex(scale) ==
    Max(0, Min(IntSqrtTimes(scale, Len(green_classes) - 1, 0), Len(green_classes) - 1))

\* (mutation: the red scale is linear)
RedIndexLinear(scale) ==
    Max(0, Min(IntTimes(scale, Len(red_classes) - 1), Len(red_classes) - 1))

\* max(0, min(int(scale ** 0.5 * (len(red_classes) - 1)), len(red_classes) - 1))
RedIndex(scale) ==
    Max(0, Min(IntSqrtTimes(scale, Len(red_classes) - 1, 0), Len(red_classes) - 1))

\* 1.0 if (max_col_val is None or max_col_val <= 0) else min(value / max_col_val, 1.0)
GreenScale(v, mx) ==
    IF mx = None \/ ~Less(Num(0), mx) THEN Num(1)
    ELSE MinCell(Quotient(v, mx), Num(1))

\* 1.0 if (min_col_val is None or min_col_val >= 0)
\* else min(abs(value) / abs(min_col_val), 1.0)
RedScale(v, mn) ==
    IF mn = None \/ ~Less(mn, Num(0)) THEN Num(1)
    ELSE MinCell(Quotient(AbsCell(v), AbsCell(mn)), Num(1))

\* text_class: "text-white" from index 3 on
TextClass(idx) == IF idx >= 3 THEN "text-white" ELSE "text-gray-800"

\* (mutation: no test for zero, which takes the branch of the negative values)
get_heatmap_class_no_zero(v, mn, mx) ==
    IF ~IsNumeric(v) THEN Class("bg-gray-200", "text-gray-800")
    ELSE IF Less(Num(0), v)
    THEN LET idx == GreenIndex(GreenScale(v, mx))
         IN  Class(green_classes[idx + 1], TextClass(idx))
    ELSE LET idx == RedIndex(RedScale(v, mn))
         IN  Class(red_classes[idx + 1], TextClass(idx))

\* get_heatmap_class(value, min_col_val, max_col_val); a list index idx of
\* the program is the place idx + 1 of the sequence
get_heatmap_class(v, mn, mx) ==
    IF ~IsNumeric(v) THEN Class("bg-gray-200", "text-gray-800")
    ELSE IF v = Num(0) THEN Class("bg-gray-300", "text-gray-800")
    ELSE IF Less(Num(0), v)
    THEN LET idx == GreenIndex(GreenScale(v, mx))
         IN  Class(green_classes[idx + 1], TextClass(idx))
    ELSE LET idx == RedIndex(RedScale(v, mn))
         IN  Class(red_classes[idx + 1], TextClass(idx))

\* the floats of the calls
HeatNumbers == {Num(n) : n \in (-MaxAbs)..MaxAbs}

InitHeat ==
    /\ value \in HeatNumbers \cup {NA}
    /\ min_col_val \in HeatNumbers \cup {None}
    /\ max_col_val \in HeatNumbers \cup {None}
    /\ heatmap_class = NoClass
    /\ pc = "bucket"
    /\ today = FetchDays
    /\ variant = "none" /\ frame = <<>> /\ sorted = <<>>
    /\ perf = AllNA /\ current = NA
    /\ apiKey = TRUE /\ section = "none" /\ order = <<>>
    /\ responses = <<>> /\ rows = <<>>
    /\ table = <<>> /\ num_performers = 0 /\ top = <<>> /\ bottom = <<>>
    /\ html_df = <<>> /\ apply_heatmap = FALSE
    /\ column_heatmap_ranges = NoRanges /\ html_content = <<>>

\* a call get_heatmap_class(value, min_col_val, max_col_val)
GetHeatmapClass ==
    /\ pc = "bucket"
    /\ heatmap_class' = get_heatmap_class(value, min_col_val, max_col_val)
    /\ pc' = "bucketed"
    /\ UNCHANGED <<today, calcVars, reportVars, rankVars, value, min_col_val,
                   max_col_val, htmlVars>>

NextHeat == GetHeatmapClass

SpecHeat == InitHeat /\ [][NextHeat]_vars

-----------------------------------------------------------------------------
(* create_html_table: the heatmap ranges and the classes of the cells.     *)
(* The text of the cells and the markup around them are left out.          *)

\* df.columns of a section table, without the columns of strings
df_columns ==
    <<"Current Level", "Past Day Change (%)", "Past Week Change (%)">>

\* the words of a column name
Words(col) ==
    CASE col = "Current Level"        -> {"Current", "Level"}
      [] col = "Past Day Change (%)"  -> {"Past", "Day", "Change", "(%)"}
      [] col = "Past Week Change (%)" -> {"Past", "Week", "Change", "(%)"}

\* "Change" in col or "Yield" in col or "Return" in col
IsChangeLike(col) == Words(col) \cap {"Change", "Yield", "Return"} # {}

\* (mutation: the values of the first row only)
NumericValuesFirstRow(d, col) ==
    {d[i][col] : i \in {j \in DOMAIN d : j = 1 /\ IsNumeric(d[j][col])}}

\* pd.to_numeric(df[col], errors='coerce').dropna(), as a set
NumericValues(d, col) ==
    {d[i][col] : i \in {j \in DOMAIN d : IsNumeric(d[j][col])}}

\* numeric_values.min()
MinOf(S) == CHOOSE x \in S : \A y \in S : ~Less(y, x)

\* numeric_values.max()
MaxOf(S) == CHOOSE x \in S : \A y \in S : ~Less(x, y)

\* column_heatmap_ranges after the loop over df.columns
HeatmapRanges(d) ==
    [col \in {c \in Range(df_columns) :
                 IsChangeLike(c) /\ NumericValues(d, c) # {}} |->
        [min |-> MinOf(NumericValues(d, col)), max |-> MaxOf(NumericValues(d, col))]]

\* one cell of a row: whether it is heat-mapped, with which min_val and
\* max_val, and the class it gets
Cell(cell_value, col_name) ==
    IF apply_heatmap /\ col_name \in DOMAIN column_heatmap_ranges
    THEN LET min_val == column_heatmap_ranges[col_name].min
             max_val == column_heatmap_ranges[col_name].max
         IN  [apply_cell_heatmap |-> TRUE, min_val |-> min_val, max_val |-> max_val,
              heatmap_class |-> get_heatmap_class(cell_value, min_val, max_val)]
    ELSE [apply_cell_heatmap |-> FALSE, min_val |-> None, max_val |-> None,
          heatmap_class |-> NoClass]

\* the cells of the tables
LevelCells == {Num(5)}
DayCells   == {NA, Num(-2), Num(0), Num(3)}
WeekCells  == {NA, Num(-5), Num(10)}

DfRows ==
    {[col \in Range(df_columns) |->
         CASE col = "Current Level"        -> l
           [] col = "Past Day Change (%)"  -> d
           [] col = "Past Week Change (%)" -> w] :
     l \in LevelCells, d \in DayCells, w \in WeekCells}

Dfs == UNION {[1..n -> DfRows] : n \in 0..MaxDfRows}

InitHtml ==
    /\ html_df \in Dfs
    /\ apply_heatmap \in BOOLEAN
    /\ column_heatmap_ranges = NoRanges
    /\ html_content = <<>>
    /\ pc = "ranges"
    /\ today = FetchDays
    /\ variant = "none" /\ frame = <<>> /\ sorted = <<>>
    /\ perf = AllNA /\ current = NA
    /\ apiKey = TRUE /\ section = "none" /\ order = <<>>
    /\ responses = <<>> /\ rows = <<>>
    /\ table = <<>> /\ num_performers = 0 /\ top = <<>> /\ bottom = <<>>
    /\ value = NA /\ min_col_val = None /\ max_col_val = None
    /\ heatmap_class = NoClass

\* create_html_table up to the table head: column_heatmap_ranges
CollectRanges ==
    /\ pc = "ranges"
    /\ column_heatmap_ranges' =
           IF apply_heatmap THEN HeatmapRanges(html_df) ELSE NoRanges
    /\ pc' = "rows"
    /\ UNCHANGED <<today, calcVars, reportVars, rankVars, heatVars, html_df,
                   apply_heatmap, html_content>>

\* one turn of the loop over df.iterrows()
RenderRow ==
    /\ pc = "rows" /\ Len(html_content) < Len(html_df)
    /\ LET row == html_df[Len(html_content) + 1]
       IN  html_content' =
               Append(html_content,
                      [col_name \in Range(df_columns) |-> Cell(row[col_name], col_name)])
    /\ UNCHANGED <<today, pc, calcVars, reportVars, rankVars, heatVars, html_df,
                   apply_heatmap, column_heatmap_ranges>>

\* the loop is over: return html_content
ReturnHtml ==
    /\ pc = "rows" /\ Len(html_content) = Len(html_df)
    /\ pc' = "rendered"
    /\ UNCHANGED <<today, calcVars, reportVars, rankVars, heatVars, htmlVars>>

NextHtml == CollectRanges \/ RenderRow \/ ReturnHtml

SpecHtml == InitHtml /\ [][NextHtml]_vars

-----------------------------------------------------------------------------
(* Vocabulary of the properties of the calculators *)

PctVariants == {"yfinance", "currency"}

Fields == {"Day", "Week", "Month"}

\* observation i of f carries the greatest date of f
IsLatest(f, i) == \A k \in DOMAIN f : f[k].date <= f[i].date

\* observation j carries the greatest date of f without observation i
IsPrevious(f, j, i) ==
    j # i /\ \A k \in DOMAIN f \ {i} : f[k].date <= f[j].date

\* observation r carries the greatest date of f that is <= cutoff
IsAsOf(f, r, cutoff) ==
    /\ f[r].date <= cutoff
    /\ \A k \in DOMAIN f : f[k].date <= cutoff => f[k].date <= f[r].date

\* cell c is the number (a - b) / b * 100, b # 0
IsPct(c, a, b) == c.ok /\ c.den > 0 /\ c.num * b = (a - b) * 100 * c.den

\* cell c is the number a - b
IsDiff(c, a, b) == c.ok /\ c.den = 1 /\ c.num = a - b

\* cell c is what variant v reports for latest value a and reference value b
IsChange(v, c, a, b) ==
    IF v = "fred" THEN IsDiff(c, a, b)
    ELSE IF b = 0 THEN c = NA ELSE IsPct(c, a, b)

Returned == pc = "done" /\ frame # <<>>

\* the cutoff day of a lookback field of the frame in use
CutoffOf(fld) == IF fld = "Week" THEN today - 7 ELSE today - 30

\* the frame in use has a reference observation for the field
HasRef(fld) ==
    IF fld = "Day" THEN Len(sorted) >= 2
    ELSE \E i \in DOMAIN sorted : sorted[i].date <= CutoffOf(fld)

\* the row of the frame in use that is the field's reference observation
RefRow(fld) ==
    IF fld = "Day" THEN Len(sorted) - 1
    ELSE CHOOSE i \in DOMAIN sorted :
             /\ sorted[i].date <= CutoffOf(fld)
             /\ \A j \in DOMAIN sorted : j > i => sorted[j].date > CutoffOf(fld)

RefVal(fld) == sorted[RefRow(fld)].val

LatestVal == sorted[Len(sorted)].val

-----------------------------------------------------------------------------
(* C1: in the percentage variant the Day change of a frame with at least   *)
(* two observations is (latest - previous) / previous * 100 over the two   *)
(* most recent observations, whatever their dates and the as-of day (and   *)
(* "N/A" where that quotient does not exist, previous = 0).                *)
C1_DayChange ==
    (pc = "done" /\ variant \in PctVariants /\ Len(frame) >= 2) =>
        \E i, j \in DOMAIN frame :
            /\ IsLatest(frame, i)
            /\ IsPrevious(frame, j, i)
            /\ IF frame[j].val = 0 THEN perf.Day = NA
               ELSE IsPct(perf.Day, frame[i].val, frame[j].val)

\* (102 then 99 as the two most recent observations, six days apart)
C1_Witness ==
    /\ pc = "done" /\ variant = "yfinance" /\ Len(frame) = 3
    /\ sorted[2] = Obs(FetchDays - 6, 102) /\ sorted[3] = Obs(FetchDays, 99)
    /\ perf.Day = [ok |-> TRUE, num |-> -50, den |-> 17]

(* C2: the Week (Month) reference is the observation with the greatest     *)
(* date <= asOf - 7 (asOf - 30); with no observation at or before the      *)
(* cutoff the field is "N/A".                                              *)
C2_AsOfLookback ==
    Returned =>
        \A fld \in {"Week", "Month"} :
            IF \A k \in DOMAIN frame : frame[k].date > CutoffOf(fld)
            THEN perf[fld] = NA
            ELSE \E l, r \in DOMAIN frame :
                    /\ IsLatest(frame, l)
                    /\ IsAsOf(frame, r, CutoffOf(fld))
                    /\ IsChange(variant, perf[fld], frame[l].val, frame[r].val)

\* observations on both sides of the week cutoff, the nearer one after it
C2_Witness ==
    /\ Returned /\ variant = "fred" /\ today = FetchDays
    /\ sorted = <<Obs(FetchDays - 30, 102), Obs(FetchDays - 6, 99),
                  Obs(FetchDays - 0, 0)>>
    /\ perf.Week = Num(-102) /\ perf.Month = Num(-102)

(* C3: in the percentage variant a field whose reference observation has   *)
(* value 0 is "N/A", and a field whose reference observation is nonzero is *)
(* computed from it, whatever the other fields' references are.            *)
C3_ZeroDenominator ==
    (Returned /\ variant \in PctVariants) =>
        \A fld \in Fields :
            HasRef(fld) =>
                IF RefVal(fld) = 0 THEN perf[fld] = NA
                ELSE IsPct(perf[fld], LatestVal, RefVal(fld))

C3_Witness ==
    /\ Returned /\ variant = "currency"
    /\ HasRef("Day") /\ RefVal("Day") = 0 /\ perf.Day = NA
    /\ HasRef("Week") /\ RefVal("Week") # 0 /\ perf.Week.ok
    /\ HasRef("Month") /\ RefVal("Month") = 0 /\ perf.Month = NA

(* C4: the raw-difference variant reports latest - reference for each      *)
(* field, with the reference selection of the percentage variant, so on    *)
(* one frame the two variants are available on the same fields except      *)
(* where the percentage variant's reference value is 0.                    *)
C4_RawDifference ==
    (Returned /\ variant = "fred") =>
        \A fld \in Fields :
            /\ IF HasRef(fld) THEN IsDiff(perf[fld], LatestVal, RefVal(fld))
               ELSE perf[fld] = NA
            /\ perf[fld].ok <=>
                  \/ YfinancePerformance(sorted, today)[fld].ok
                  \/ (HasRef(fld) /\ RefVal(fld) = 0)
            /\ perf[fld].ok <=>
                  \/ CurrencyPerformance(sorted, today)[fld].ok
                  \/ (HasRef(fld) /\ RefVal(fld) = 0)

C4_Witness ==
    /\ Returned /\ variant = "fred"
    /\ perf.Day = Num(-3) /\ perf.Week = Num(99) /\ perf.Month = NA
    /\ ~YfinancePerformance(sorted, today).Week.ok

(* C7: a field without enough history is "N/A" on its own: each of Day,    *)
(* Week and Month is decided by its own reference observation alone, so    *)
(* with no observation at or before the week cutoff Week is "N/A" while    *)
(* Day is still the change against the previous observation.               *)
C7_FieldsIndependent ==
    Returned =>
        \A fld \in Fields :
            IF HasRef(fld)
            THEN IsChange(variant, perf[fld], LatestVal, RefVal(fld))
            ELSE perf[fld] = NA

C7_Witness ==
    /\ Returned /\ variant = "yfinance"
    /\ ~HasRef("Week") /\ perf.Week = NA
    /\ HasRef("Day") /\ perf.Day.ok /\ sorted[1].date < sorted[2].date

\* Week available with Month lacking history
C7_WitnessWeekOnly ==
    /\ Returned /\ variant = "yfinance"
    /\ HasRef("Week") /\ perf.Week.ok
    /\ ~HasRef("Month") /\ perf.Month = NA

(* C8: a frame with a single observation, or whose observations all carry  *)
(* the same date, has Day "N/A" in both variants; an empty frame has all   *)
(* three fields "N/A".                                                     *)
C8_InsufficientHistory ==
    pc = "done" =>
        /\ frame = <<>> => perf = AllNA
        /\ (frame # <<>> /\ \A i, j \in DOMAIN frame : frame[i].date = frame[j].date)
               => perf.Day = NA

\* the part of C8 the calculators satisfy: one observation, or none
C8_SingleOrEmpty ==
    pc = "done" =>
        /\ frame = <<>> => perf = AllNA
        /\ Len(frame) = 1 => perf.Day = NA

\* the field's change is taken between two different observations: the
\* latest one and its reference
TwoObservations(fld) ==
    \E l, r \in DOMAIN frame :
        /\ l # r
        /\ IsLatest(frame, l)
        /\ IF fld = "Day" THEN IsPrevious(frame, r, l)
           ELSE IsAsOf(frame, r, CutoffOf(fld))

(* C16: a field is a number only if its change is taken between two        *)
(* different observations of the series, the latest one and a reference    *)
(* one; otherwise it is "N/A", never 0.                                    *)
C16_NoZeroForMissing ==
    pc = "done" =>
        \A fld \in Fields : ~TwoObservations(fld) => perf[fld] = NA

\* the part of C16 the calculators satisfy: the Day field
C16_DayOnly ==
    pc = "done" => (~TwoObservations("Day") => perf.Day = NA)

(* C17: in the raw-difference variant Month is a number only if Week is;   *)
(* in every variant a frame with no observation at or before asOf - 7 has  *)
(* Week and Month "N/A"; a frame of one observation at or before           *)
(* asOf - 30 has Week and Month numbers (in the percentage variant: if the *)
(* observation's value is not 0) while Day is "N/A".                       *)
C17_NestedAvailability ==
    Returned =>
        /\ variant = "fred" => (perf.Month.ok => perf.Week.ok)
        /\ (\A i \in DOMAIN frame : frame[i].date > today - 7) =>
               (perf.Week = NA /\ perf.Month = NA)
        /\ ( /\ Len(frame) = 1 /\ frame[1].date <= today - 30
             /\ (variant = "fred" \/ frame[1].val # 0) ) =>
               (perf.Week.ok /\ perf.Month.ok /\ perf.Day = NA)

\* one observation, a month old
C17_Witness ==
    /\ Returned /\ variant = "fred" /\ Len(frame) = 1
    /\ frame[1].date = today - 30
    /\ perf.Week.ok /\ perf.Month.ok /\ perf.Day = NA

\* percentage variant: Month a number, Week "N/A" (its reference is 0)
C17_WitnessPct ==
    /\ Returned /\ variant = "yfinance"
    /\ perf.Month.ok /\ HasRef("Week") /\ perf.Week = NA

(* C18: when every observation, the latest one included, is dated at or    *)
(* before the cutoff of Week (Month), the field's reference is the latest  *)
(* observation itself, and the field is exactly 0 in the raw-difference    *)
(* variant and, the latest value not being 0, in the percentage variant.   *)
C18_ReferenceMayBeLatest ==
    Returned =>
        \A fld \in {"Week", "Month"} :
            (\A i \in DOMAIN frame : frame[i].date <= CutoffOf(fld)) =>
                /\ HasRef(fld) /\ RefRow(fld) = Len(sorted)
                /\ (variant = "fred" \/ LatestVal # 0) => perf[fld] = Num(0)

\* the latest of two observations is a week old
C18_Witness ==
    /\ Returned /\ variant = "yfinance" /\ Len(frame) = 2
    /\ sorted[1].date < sorted[2].date /\ sorted[2].date = today - 7
    /\ perf.Week = Num(0) /\ perf.Month = NA
    /\ perf.Day.ok /\ perf.Day # Num(0)

-----------------------------------------------------------------------------
(* Vocabulary of the properties of the section loops *)

\* o lists first, then the other keys of tickers in ascending str order,
\* every name once
IsFullOrder(o, first, tickers) ==
    /\ Len(o) >= Len(first)
    /\ SubSeq(o, 1, Len(first)) = first
    /\ Range(o) = Range(first) \cup Range(tickers)
    /\ \A i, j \in DOMAIN o : i # j => o[i] # o[j]
    /\ \A i, j \in (Len(first) + 1)..Len(o) : i < j => StrLess(o[i], o[j])

AllUnavailable(row) ==
    row.Current = NA /\ row.Day = NA /\ row.Week = NA /\ row.Month = NA

\* the fetch for the asset errors, returns nothing, or is skipped for want
\* of the FRED key
FetchFails(name, resp) ==
    \/ resp.kind = "error"
    \/ resp.data = <<>>
    \/ (section = "fixed_income" /\ IsFred(name) /\ ~apiKey)

\* the rows the asset gets from its own response alone
RowsAlone(name, resp) ==
    CASE section = "us_equity" -> EquityRows(name, GetYfinanceData(resp).data)
      [] section = "currency"  -> CurrencyRows(name, GetYfinanceData(resp).data)
      [] section = "fixed_income" ->
            IF IsFred(name)
            THEN FixedIncomeRows(name, GetFredData(resp, apiKey).data)
            ELSE FixedIncomeRows(name, GetYfinanceData(resp).data)

(* C5: a section table has exactly one row per asset of the section's      *)
(* order list (the flagship assets, then the others alphabetically), in    *)
(* that order, whatever the fetches returned, all of them failing          *)
(* included.                                                               *)
C5_RowPerAsset ==
    section \in Sections =>
        /\ Len(rows) = Len(responses)
        /\ \A i \in DOMAIN rows : rows[i].Name = order[i]
        /\ pc = "built" => Len(rows) = Len(order)
        /\ section = "us_equity" =>
               IsFullOrder(order, us_equity_order, US_EQUITY_TICKERS)
        /\ section = "currency" =>
               IsFullOrder(order, curr_order, CURRENCY_TICKERS)

\* every fetch of the US equity section failed
C5_Witness ==
    /\ pc = "built" /\ section = "us_equity"
    /\ Len(rows) = MaxAssets
    /\ \A i \in DOMAIN rows : FetchFails(order[i], responses[i]) /\ AllUnavailable(rows[i])
    /\ \E i \in DOMAIN rows : US_EQUITY_TICKERS[i] # rows[i].Name

(* C6: an asset whose fetch errors, returns nothing or is skipped for want *)
(* of the FRED key has "N/A" for its value and its three changes; the loop *)
(* goes on to the next asset, and every row is what its own asset's        *)
(* response alone makes it.                                                *)
C6_FailureIsolated ==
    section \in Sections =>
        /\ pc # "aborted"
        /\ AtAsset => ENABLED NextReport
        /\ Len(rows) = Len(responses)
        /\ \A i \in DOMAIN rows :
            /\ FetchFails(order[i], responses[i]) => AllUnavailable(rows[i])
            /\ rows[i] \in RowsAlone(order[i], responses[i])

\* without the FRED key: failed Treasury rows after and before rows with data
C6_Witness ==
    /\ pc = "built" /\ section = "fixed_income" /\ ~apiKey
    /\ Len(rows) >= 3
    /\ rows[1].Name = "MOVE Index" /\ rows[1].Day.ok
    /\ IsFred(rows[2].Name) /\ responses[2].data # <<>> /\ AllUnavailable(rows[2])
    /\ responses[3].kind = "error" /\ AllUnavailable(rows[3])

-----------------------------------------------------------------------------
(* Vocabulary of the properties of the ranker *)

Ranked == pc = "done" /\ section = "none" /\ variant = "none"

\* the rows of the table whose cell is a number
Eligible == {i \in DOMAIN table : table[i].val.ok}

\* a <= b on numeric cells
AtMost(a, b) == a.num * b.den <= b.num * a.den

\* r holds rows of the table, each at most once, and only eligible ones
EligibleRowsOnly(r) ==
    /\ \A i \in DOMAIN r : r[i].Name \in Eligible /\ r[i] = table[r[i].Name]
    /\ \A i, j \in DOMAIN r : i # j => r[i].Name # r[j].Name

NamesOf(r) == {r[i].Name : i \in DOMAIN r}

(* C9: the ranker ranks the rows whose cell is a number only: with n such  *)
(* rows, top holds exactly min(k, n) of them carrying the min(k, n)        *)
(* largest values, bottom exactly min(k, n) of them carrying the min(k, n) *)
(* smallest values, and no "N/A" row is in either (k >= 0).                *)
C9_TopBottomEligible ==
    Ranked =>
        /\ EligibleRowsOnly(top) /\ EligibleRowsOnly(bottom)
        /\ Len(top) = Min(num_performers, Cardinality(Eligible))
        /\ Len(bottom) = Min(num_performers, Cardinality(Eligible))
        /\ \A i \in NamesOf(top) : \A j \in Eligible \ NamesOf(top) :
               AtMost(table[j].val, table[i].val)
        /\ \A i \in NamesOf(bottom) : \A j \in Eligible \ NamesOf(bottom) :
               AtMost(table[i].val, table[j].val)

\* three numbers and an "N/A" row, two asked for
C9_Witness ==
    /\ Ranked /\ num_performers = 2 /\ Len(table) = 4 /\ Cardinality(Eligible) = 3
    /\ table[1].val = Num(-1) /\ table[2].val = NA
    /\ NamesOf(top) = {3, 4} /\ NamesOf(bottom) \cap NamesOf(top) # {}

\* fewer eligible rows than asked for
C9_WitnessAll ==
    /\ Ranked /\ num_performers = 3 /\ Len(table) = 3 /\ Cardinality(Eligible) = 2
    /\ NamesOf(top) = Eligible /\ NamesOf(bottom) = Eligible

(* C10 as stated: top is strictly descending and bottom strictly ascending *)
(* by the column, with at most k rows each.                                *)
C10_StrictlySorted ==
    Ranked =>
        /\ \A i \in 1..(Len(top) - 1) : Less(top[i + 1].val, top[i].val)
        /\ \A i \in 1..(Len(bottom) - 1) : Less(bottom[i].val, bottom[i + 1].val)
        /\ Len(top) <= num_performers /\ Len(bottom) <= num_performers

(* C10 as amended: top is descending and bottom ascending by the column,   *)
(* rows with equal values being adjacent (no consecutive pair increases,   *)
(* respectively decreases), with at most k rows each (k >= 0).             *)
C10_Sorted ==
    Ranked =>
        /\ \A i \in 1..(Len(top) - 1) : AtMost(top[i + 1].val, top[i].val)
        /\ \A i \in 1..(Len(bottom) - 1) : AtMost(bottom[i].val, bottom[i + 1].val)
        /\ Len(top) <= num_performers /\ Len(bottom) <= num_performers

\* a tie inside top, and bottom in the reverse order of the sorted tail
C10_Witness ==
    /\ Ranked /\ num_performers = 3 /\ Cardinality(Eligible) = 4
    /\ top[1].val = top[2].val /\ Less(top[3].val, top[2].val)
    /\ Less(bottom[1].val, bottom[2].val) /\ Less(bottom[2].val, bottom[3].val)

\* in r, rows with equal values stand in the order of the table
TiesInTableOrder(r) ==
    \A i, j \in DOMAIN r :
        (i < j /\ r[i].val = r[j].val) => r[i].Name < r[j].Name

\* of the table's rows with equal values, r holds the first ones
TiesFirstSelected(r) ==
    \A i \in DOMAIN r : \A j \in Eligible \ NamesOf(r) :
        table[j].val = r[i].val => r[i].Name < j

(* C11: the ranker's tie-break is stable: among rows with equal values,    *)
(* the rows selected into top and into bottom are the first ones of the    *)
(* table, and inside top and bottom they stand in the order of the table.  *)
C11_StableTieBreak ==
    Ranked =>
        /\ TiesInTableOrder(top) /\ TiesInTableOrder(bottom)
        /\ TiesFirstSelected(top) /\ TiesFirstSelected(bottom)

-----------------------------------------------------------------------------
(* Vocabulary of the properties of get_heatmap_class *)

Bucketed == pc = "bucketed"

\* the class is the one of index i of the list
IsIndex(classes, i) ==
    i + 1 \in DOMAIN classes /\ heatmap_class.selected_class = classes[i + 1]

\* -c for a float, None for None
Mirror(c) == IF c.ok THEN [c EXCEPT !.num = -c.num] ELSE c

Neutral == {"bg-gray-200", "bg-gray-300"}

(* C12: a value > 0 gets the green class whose index i in 0..4 is 4 when   *)
(* max_col_val is None or <= 0 or below the value, and otherwise the       *)
(* largest i with i * i * max_col_val <= 16 * value, i.e. the floor of     *)
(* sqrt(value / max_col_val) * 4.                                          *)
C12_GreenIndex ==
    (Bucketed /\ value.ok /\ value.num > 0) =>
        \E i \in 0..4 :
            /\ IsIndex(green_classes, i)
            /\ IF max_col_val = None \/ max_col_val.num <= 0
                  \/ max_col_val.num < value.num
               THEN i = 4
               ELSE /\ i * i * max_col_val.num <= 16 * value.num
                    /\ i < 4 => (i + 1) * (i + 1) * max_col_val.num > 16 * value.num

\* value 3 with max_col_val 10: the third green class
C12_Witness ==
    /\ Bucketed /\ value = Num(3) /\ max_col_val = Num(10)
    /\ heatmap_class = Class("bg-green-300", "text-gray-800")

\* no positive maximum: full intensity
C12_WitnessDegenerate ==
    /\ Bucketed /\ value = Num(1) /\ max_col_val = Num(0)
    /\ heatmap_class = Class("bg-green-500", "text-white")

(* C13: a value < 0 with min_col_val gets the red class whose index is the *)
(* index of the green class that the value negated gets with max_col_val   *)
(* the negated min_col_val (None for None), and the same text class.       *)
C13_RedMirrorsGreen ==
    (Bucketed /\ value.ok /\ value.num < 0) =>
        \E i \in 0..4 :
            /\ IsIndex(red_classes, i)
            /\ LET g == get_heatmap_class(Mirror(value), Mirror(max_col_val),
                                          Mirror(min_col_val))
               IN  /\ g.selected_class = green_classes[i + 1]
                   /\ g.text_class = heatmap_class.text_class

\* value -2 with min_col_val -5: the third red class
C13_Witness ==
    /\ Bucketed /\ value = Num(-2) /\ min_col_val = Num(-5)
    /\ heatmap_class = Class("bg-red-300", "text-gray-800")

(* C14: the value 0 and a value that is not a number ("N/A") get a gray    *)
(* class, neither green nor red, whatever min_col_val and max_col_val are, *)
(* None included.                                                          *)
C14_NeutralBucket ==
    (Bucketed /\ (value = NA \/ value = Num(0))) =>
        /\ heatmap_class.selected_class \in Neutral
        /\ heatmap_class.selected_class \notin Range(green_classes) \cup Range(red_classes)
        /\ heatmap_class.text_class = "text-gray-800"

\* zero in a column with values on both sides
C14_Witness ==
    /\ Bucketed /\ value = Num(0) /\ min_col_val = Num(-5) /\ max_col_val = Num(10)
    /\ heatmap_class = Class("bg-gray-300", "text-gray-800")

\* "N/A" without any range
C14_WitnessNA ==
    /\ Bucketed /\ value = NA /\ min_col_val = None /\ max_col_val = None
    /\ heatmap_class = Class("bg-gray-200", "text-gray-800")

-----------------------------------------------------------------------------
(* Vocabulary of the properties of create_html_table *)

\* the numbers of column col in the whole table
ColumnNumbers(col) ==
    {c \in {html_df[i][col] : i \in DOMAIN html_df} : c.ok}

\* r is the least and the greatest number of column col in the whole table
IsFullRange(r, col) ==
    /\ r.min \in ColumnNumbers(col) /\ r.max \in ColumnNumbers(col)
    /\ \A c \in ColumnNumbers(col) : AtMost(r.min, c) /\ AtMost(c, r.max)

ChangeColumns == {"Past Day Change (%)", "Past Week Change (%)"}

(* C15: with the heatmap enabled, no cell is rendered before the ranges    *)
(* are collected; the range of every change-like column with a number is   *)
(* the least and greatest number of that column over all rows, and stays   *)
(* so while the rows are rendered; every heat-mapped cell is a cell of     *)
(* such a column and gets its class from its own value and that range.     *)
C15_SharedRange ==
    (pc \in {"ranges", "rows", "rendered"} /\ apply_heatmap) =>
        /\ pc = "ranges" => html_content = <<>>
        /\ pc # "ranges" =>
              /\ DOMAIN column_heatmap_ranges =
                     {col \in ChangeColumns : ColumnNumbers(col) # {}}
              /\ \A col \in DOMAIN column_heatmap_ranges :
                     IsFullRange(column_heatmap_ranges[col], col)
        /\ pc = "rendered" => Len(html_content) = Len(html_df)
        /\ \A i \in DOMAIN html_content : \A col \in Range(df_columns) :
              LET cell == html_content[i][col]
              IN  IF col \in ChangeColumns /\ ColumnNumbers(col) # {}
                  THEN /\ cell.apply_cell_heatmap
                       /\ IsFullRange([min |-> cell.min_val, max |-> cell.max_val], col)
                       /\ cell.heatmap_class =
                              get_heatmap_class(html_df[i][col], cell.min_val, cell.max_val)
                  ELSE ~cell.apply_cell_heatmap /\ cell.heatmap_class = NoClass

\* the first row's cell is bucketed with the range that the later rows set
C15_Witness ==
    /\ pc = "rendered" /\ apply_heatmap /\ Len(html_df) = 3
    /\ html_df[1]["Past Day Change (%)"] = Num(3)
    /\ html_df[2]["Past Day Change (%)"] = NA
    /\ html_df[3]["Past Day Change (%)"] = Num(-2)
    /\ html_content[1]["Past Day Change (%)"].min_val = Num(-2)
    /\ html_content[1]["Past Day Change (%)"].heatmap_class
           = Class("bg-green-500", "text-white")
    /\ html_content[3]["Past Day Change (%)"].max_val = Num(3)
    /\ ~html_content[1]["Current Level"].apply_cell_heatmap

=============================================================================
